---- MODULE Spec2Model ----
(***************************************************************************)
(* Staffing-Model: the two allocation engines (staffing_model.py and       *)
(* staffing_model_excel.py), their run_scenarios loops and command-line    *)
(* entry points, and the wide-form daily runner (run_staffing_model.py).   *)
(*                                                                         *)
(* Numbers: the engines work on Python ints.  A supervision ratio is a     *)
(* rational [num, den] (3.5 is 7/2); rooms / ratio is then an exact        *)
(* rational and math.ceil of it is computed on integers.  The wide-form    *)
(* runner works on floats rounded to one decimal: those are carried in     *)
(* tenths (1.5 is 15).                                                     *)
(***************************************************************************)
EXTENDS Integers, Sequences, FiniteSets, TLC

VARIABLES
    prog,         \* which script is running
    pc,           \* its position
    params,       \* the Parameters instance in use
    scenarios,    \* list of ScenarioInput handed to run_scenarios
    rows,         \* run_scenarios: the rows appended so far
    df_out,       \* the DataFrame run_scenarios returned (<<>> while none)
    args,         \* staffing_model.py: the four comma-separated arguments, split
    parsed,       \* staffing_model.py: the lists parse_csv_ints returned so far
    df_input,     \* staffing_model_excel.py: the rows of the input table
    df,           \* run_staffing_model.py: the wide input table
    computed,     \* run_staffing_model.py: per-day dict of computed values
    ws,           \* run_staffing_model.py: the rows written to the worksheet
    loc,          \* run_staffing_model.py: the local variables of the day loop
    printed,      \* messages printed that matter (ERROR lines)
    output_file,  \* the files written (<<>> while none)
    status        \* process exit status; -1 while running

cliVars  == <<args, parsed>>
xlVars   == <<df_input>>
wideVars == <<df, computed, ws, loc>>
ioVars   == <<printed, output_file, status>>

vars == <<prog, pc, params, scenarios, rows, df_out, cliVars, xlVars, wideVars, ioVars>>

-----------------------------------------------------------------------------
(* Bounds of the explored inputs *)

MaxRooms == 20
MaxTrainees == 4
MaxCrnas == 10
MaxFaculty == 12
MaxScenarios == 3

-----------------------------------------------------------------------------
(* Python built-ins *)

Min(a, b) == IF a <= b THEN a ELSE b
Max(a, b) == IF a >= b THEN a ELSE b

\* math.ceil(n / ratio) for an int n and a ratio num/den > 0
math_ceil(n, ratio) == -((-(n * ratio.den)) \div ratio.num)

Ratio(n, d) == [num |-> n, den |-> d]

-----------------------------------------------------------------------------
(* staffing_model.py *)

\* Parameters() with the dataclass defaults
Parameters ==
    [trainee_supervision_ratio |-> Ratio(2, 1),
     crna_supervision_ratio    |-> Ratio(4, 1),
     crnas_location_buffer     |-> 6,
     faculty_location_buffer   |-> 1,
     board_runner_faculty      |-> 1]

ScenarioInput(name, total_rooms, trainees, crnas, faculty) ==
    [name               |-> name,
     total_rooms        |-> total_rooms,
     trainees_available |-> trainees,
     crnas_available    |-> crnas,
     faculty_available  |-> faculty]

crnas_available_for_rooms(crnas_total, crnas_fixed_buffer) ==
    Max(crnas_total - crnas_fixed_buffer, 0)

\* mutant: the subtraction the wrong way round
faculty_available_for_coverage_reversed(faculty_total, faculty_main_or_buffer, faculty_board_runner) ==
    Max(faculty_main_or_buffer + faculty_board_runner - faculty_total, 0)

faculty_available_for_coverage(faculty_total, faculty_main_or_buffer, faculty_board_runner) ==
    Max(faculty_total - faculty_main_or_buffer - faculty_board_runner, 0)

\* mutant: trainees are not capped by the rooms there are
trainee_rooms_uncapped(trainees_available, total_rooms) ==
    trainees_available

trainee_rooms(trainees_available, total_rooms) ==
    Min(trainees_available, total_rooms)

\* mutant: one flexible CRNA is held back from the rooms
crna_rooms_holding_one_back(crnas_for_rooms, rooms_left) ==
    Min(Max(crnas_for_rooms - 1, 0), rooms_left)

crna_rooms(crnas_for_rooms, rooms_left) ==
    Min(crnas_for_rooms, rooms_left)

faculty_for_trainees(t_rooms, ratio) ==
    IF t_rooms > 0 THEN math_ceil(t_rooms, ratio) ELSE 0

\* mutant: the quotient rounded to the nearest integer
faculty_for_crnas_nearest(c_rooms, ratio) ==
    IF c_rooms > 0 THEN (2 * c_rooms * ratio.den + ratio.num) \div (2 * ratio.num) ELSE 0

faculty_for_crnas(c_rooms, ratio) ==
    IF c_rooms > 0 THEN math_ceil(c_rooms, ratio) ELSE 0

faculty_left(faculty_for_coverage, f_trainees, f_crnas) ==
    Max(faculty_for_coverage - (f_trainees + f_crnas), 0)

\* mutant: every remaining faculty member opens a room, rooms left or not
solo_rooms_uncapped(f_left, rooms_left) ==
    f_left

solo_rooms(f_left, rooms_left) ==
    Min(f_left, rooms_left)

compute_staffing(scenario, p) ==
    LET total_rooms  == scenario.total_rooms
        crnas_total  == scenario.crnas_available
        faculty_total == scenario.faculty_available
        crnas_fixed_buffer     == p.crnas_location_buffer
        faculty_main_or_buffer == p.faculty_location_buffer
        faculty_board_runner   == p.board_runner_faculty
        c_avail == crnas_available_for_rooms(crnas_total, crnas_fixed_buffer)
        f_cov   == faculty_available_for_coverage(
                       faculty_total, faculty_main_or_buffer, faculty_board_runner)
        t_rooms      == trainee_rooms(scenario.trainees_available, total_rooms)
        rooms_left_1 == total_rooms - t_rooms
        c_rooms      == crna_rooms(c_avail, rooms_left_1)
        rooms_left_2 == rooms_left_1 - c_rooms
        f_trainees   == faculty_for_trainees(t_rooms, p.trainee_supervision_ratio)
        f_crnas      == faculty_for_crnas(c_rooms, p.crna_supervision_ratio)
        f_left_1     == faculty_left(f_cov, f_trainees, f_crnas)
        s_rooms      == solo_rooms(f_left_1, rooms_left_2)
        f_left_2     == f_left_1 - s_rooms
        max_rooms_coverable == t_rooms + c_rooms + s_rooms
    IN  [name                                 |-> scenario.name,
         total_rooms                          |-> total_rooms,
         crnas_total                          |-> crnas_total,
         crnas_fixed_buffer                   |-> crnas_fixed_buffer,
         crnas_available_for_rooms            |-> c_avail,
         faculty_total                        |-> faculty_total,
         faculty_main_or_buffer               |-> faculty_main_or_buffer,
         faculty_board_runner                 |-> faculty_board_runner,
         faculty_available_for_coverage       |-> f_cov,
         rooms_covered_by_trainees            |-> t_rooms,
         rooms_covered_by_crnas               |-> c_rooms,
         rooms_covered_by_faculty             |-> s_rooms,
         faculty_used_for_trainee_supervision |-> f_trainees,
         faculty_used_for_crna_supervision    |-> f_crnas,
         faculty_buffer                       |-> f_left_2,
         max_rooms_coverable                  |-> max_rooms_coverable,
         rooms_left_to_cover                  |-> total_rooms - max_rooms_coverable]

-----------------------------------------------------------------------------
(* staffing_model_excel.py *)

\* Parameters() with the dataclass defaults
xl_Parameters ==
    [trainee_supervision_ratio |-> Ratio(2, 1),
     crna_supervision_ratio    |-> Ratio(7, 2),
     fixed_crnas               |-> 6,
     fixed_faculty_cardiac     |-> 3,
     fixed_faculty_main_or     |-> 1,
     fixed_faculty_nl_or       |-> 1]

xl_fixed_faculty_total(p) ==
    p.fixed_faculty_cardiac + p.fixed_faculty_main_or + p.fixed_faculty_nl_or

xl_faculty_available_for_coverage(faculty_available, fixed_faculty_total) ==
    Max(faculty_available - fixed_faculty_total, 0)

xl_crnas_available_for_rooms(crnas_available, fixed_crnas) ==
    Max(crnas_available - fixed_crnas, 0)

xl_trainee_rooms(trainees_available, total_rooms) ==
    Min(trainees_available, total_rooms)

xl_crna_rooms(crnas_for_rooms, rooms_left) ==
    Min(crnas_for_rooms, rooms_left)

xl_faculty_for_trainees(t_rooms, ratio) ==
    IF t_rooms > 0 THEN math_ceil(t_rooms, ratio) ELSE 0

\* mutant: the quotient rounded down
xl_faculty_for_crnas_floor(c_rooms, ratio) ==
    IF c_rooms > 0 THEN (c_rooms * ratio.den) \div ratio.num ELSE 0

xl_faculty_for_crnas(c_rooms, ratio) ==
    IF c_rooms > 0 THEN math_ceil(c_rooms, ratio) ELSE 0

xl_faculty_left(faculty_for_coverage, f_trainees, f_crnas) ==
    Max(faculty_for_coverage - (f_trainees + f_crnas), 0)

\* mutant: one free faculty member is kept out of the rooms
xl_solo_faculty_rooms_holding_one_back(f_left, rooms_left) ==
    Min(Max(f_left - 1, 0), rooms_left)

xl_solo_faculty_rooms(f_left, rooms_left) ==
    Min(f_left, rooms_left)

\* mutant: the solo-faculty rooms are not taken off the demand
xl_crna_demand_before_solo(total_rooms, t_rooms, s_rooms, fixed_crnas) ==
    Max(total_rooms - t_rooms - fixed_crnas, 0)

xl_crna_demand(total_rooms, t_rooms, s_rooms, fixed_crnas) ==
    Max(total_rooms - t_rooms - s_rooms - fixed_crnas, 0)

xl_crnas_shortage(crna_demand, crnas_available) ==
    Max(crna_demand - crnas_available, 0)

xl_compute_staffing(scenario, p) ==
    LET fixed_faculty_total == xl_fixed_faculty_total(p)
        f_cov   == xl_faculty_available_for_coverage(
                       scenario.faculty_available, fixed_faculty_total)
        c_avail == xl_crnas_available_for_rooms(scenario.crnas_available, p.fixed_crnas)
        total_rooms  == scenario.total_rooms
        t_rooms      == xl_trainee_rooms(scenario.trainees_available, total_rooms)
        rooms_left_1 == total_rooms - t_rooms
        c_rooms      == xl_crna_rooms(c_avail, rooms_left_1)
        rooms_left_2 == rooms_left_1 - c_rooms
        f_trainees   == xl_faculty_for_trainees(t_rooms, p.trainee_supervision_ratio)
        f_crnas      == xl_faculty_for_crnas(c_rooms, p.crna_supervision_ratio)
        f_left_1     == xl_faculty_left(f_cov, f_trainees, f_crnas)
        s_rooms      == xl_solo_faculty_rooms(f_left_1, rooms_left_2)
        f_left_2     == f_left_1 - s_rooms
        rooms_left_3 == rooms_left_2 - s_rooms
        crna_demand  == xl_crna_demand(total_rooms, t_rooms, s_rooms, p.fixed_crnas)
        crnas_shortage == xl_crnas_shortage(crna_demand, scenario.crnas_available)
        max_rooms_coverable == t_rooms + c_rooms + s_rooms
    IN  [name                                 |-> scenario.name,
         total_rooms                          |-> total_rooms,
         trainees_used                        |-> t_rooms,
         crnas_total                          |-> scenario.crnas_available,
         crnas_fixed                          |-> p.fixed_crnas,
         crnas_available_for_rooms            |-> c_avail,
         faculty_total                        |-> scenario.faculty_available,
         faculty_fixed_total                  |-> fixed_faculty_total,
         faculty_available_for_coverage       |-> f_cov,
         faculty_used_for_trainee_supervision |-> f_trainees,
         faculty_used_for_crna_supervision    |-> f_crnas,
         solo_faculty_rooms                   |-> s_rooms,
         crna_demand                          |-> crna_demand,
         crnas_shortage                       |-> crnas_shortage,
         faculty_buffer                       |-> f_left_2,
         max_rooms_coverable                  |-> max_rooms_coverable,
         rooms_left_to_cover                  |-> rooms_left_3]

-----------------------------------------------------------------------------
(* run_scenarios, both modules *)

IsMain == prog \in {"staffing_model:main", "staffing_model_excel:main",
                    "run_staffing_model:main"}

\* dataclasses.asdict: the record's fields, by name
asdict(res) == res

\* the name f"Scenario {k}"
ScenarioName(k) == <<"Scenario", k>>

\* mutant: the new row is put in front of the others
rows_prepend(rs, row) == <<row>> \o rs

\* rows.append(row)
rows_append(rs, row) == Append(rs, row)

\* staffing_model.run_scenarios, one pass of the for loop
run_scenarios_step ==
    /\ prog \in {"staffing_model", "staffing_model:main"}
    /\ pc = "run_scenarios"
    /\ Len(rows) < Len(scenarios)
    /\ LET sc  == scenarios[Len(rows) + 1]
           res == compute_staffing(sc, params)
       IN  rows' = rows_append(rows, asdict(res))
    /\ UNCHANGED <<prog, pc, params, scenarios, df_out, cliVars, xlVars, wideVars, ioVars>>

\* staffing_model.run_scenarios, the loop is over: return pd.DataFrame(rows)
run_scenarios_return ==
    /\ prog \in {"staffing_model", "staffing_model:main"}
    /\ pc = "run_scenarios"
    /\ Len(rows) = Len(scenarios)
    /\ df_out' = rows
    /\ pc' = IF IsMain THEN "to_excel" ELSE "returned"
    /\ UNCHANGED <<prog, params, scenarios, rows, cliVars, xlVars, wideVars, ioVars>>

\* staffing_model_excel.run_scenarios: the list comprehension
xl_run_scenarios_rows(scs, p) ==
    [i \in 1..Len(scs) |-> asdict(xl_compute_staffing(scs[i], p))]

xl_run_scenarios ==
    /\ prog \in {"staffing_model_excel", "staffing_model_excel:main"}
    /\ pc = "run_scenarios"
    /\ df_out' = xl_run_scenarios_rows(scenarios, params)
    /\ pc' = IF IsMain THEN "to_excel" ELSE "returned"
    /\ UNCHANGED <<prog, params, scenarios, rows, cliVars, xlVars, wideVars, ioVars>>

-----------------------------------------------------------------------------
(* Spec: run_scenarios(scenarios, params) called on bounded inputs *)

\* parameter sets tried for staffing_model.Parameters
ParameterSets ==
    { Parameters,
      [trainee_supervision_ratio |-> Ratio(1, 1),
       crna_supervision_ratio    |-> Ratio(7, 2),
       crnas_location_buffer     |-> 0,
       faculty_location_buffer   |-> 0,
       board_runner_faculty      |-> 0],
      [trainee_supervision_ratio |-> Ratio(3, 1),
       crna_supervision_ratio    |-> Ratio(5, 2),
       crnas_location_buffer     |-> 2,
       faculty_location_buffer   |-> 2,
       board_runner_faculty      |-> 1] }

\* parameter sets tried for staffing_model_excel.Parameters
xl_ParameterSets ==
    { xl_Parameters,
      [xl_Parameters EXCEPT !.fixed_faculty_cardiac = 2],
      [xl_Parameters EXCEPT !.fixed_crnas = 0],
      [trainee_supervision_ratio |-> Ratio(3, 2),
       crna_supervision_ratio    |-> Ratio(4, 1),
       fixed_crnas               |-> 0,
       fixed_faculty_cardiac     |-> 0,
       fixed_faculty_main_or     |-> 1,
       fixed_faculty_nl_or       |-> 0] }

\* every single scenario within the bounds
GridScenarios ==
    { <<ScenarioInput(ScenarioName(1), r, t, c, f)>> :
        r \in 0..MaxRooms, t \in 0..MaxTrainees, c \in 0..MaxCrnas, f \in 0..MaxFaculty }

\* the inputs lists of several scenarios are built from
PoolInputs == { <<20, 4, 10, 12>>, <<8, 2, 7, 6>>, <<12, 0, 9, 9>> }

ListScenarios ==
    UNION { { [i \in 1..n |-> ScenarioInput(ScenarioName(i),
                                  q[i][1], q[i][2], q[i][3], q[i][4])] :
              q \in [1..n -> PoolInputs] } : n \in 0..MaxScenarios }

Idle ==
    /\ rows = <<>>
    /\ df_out = <<>>
    /\ args = <<>>
    /\ parsed = <<>>
    /\ df_input = <<>>
    /\ df = <<>>
    /\ computed = <<>>
    /\ ws = <<>>
    /\ loc = <<>>
    /\ printed = <<>>
    /\ output_file = <<>>
    /\ status = -1

Init ==
    /\ \/ prog = "staffing_model" /\ params \in ParameterSets
       \/ prog = "staffing_model_excel" /\ params \in xl_ParameterSets
    /\ pc = "run_scenarios"
    /\ scenarios \in GridScenarios \cup ListScenarios
    /\ Idle

Next ==
    \/ run_scenarios_step
    \/ run_scenarios_return
    \/ xl_run_scenarios

Spec == Init /\ [][Next]_vars

-----------------------------------------------------------------------------
(* run_staffing_model.py: the wide-form daily runner.                      *)
(* Every number of this script is carried in tenths: T(3) is 3, 15 is 1.5. *)

MaxDays == 2

rsm_fixed_crnas == 6
rsm_cardiac_faculty == 3
rsm_nl_fac == 5

T(n) == 10 * n

\* a cell of the input table: an integer or NaN
Cell(n) == [nan |-> FALSE, v |-> n]
NaN == [nan |-> TRUE, v |-> 0]
pd_isna(cell) == cell.nan

\* a value written to the report: a number (in tenths), the empty string, or
\* the string f"{v}%"
Num(t) == [kind |-> "num", v |-> t]
Blank == [kind |-> "blank", v |-> 0]
Pct(n) == [kind |-> "str", v |-> n]

required == <<"total_rooms", "trainees", "crnas", "faculty">>

\* df.index is the set of row labels, df.cols[d] the column of day d
is_empty_day(dfx, d) ==
    \E k \in 1..Len(required) :
        LET r == required[k] IN
        IF r \notin dfx.index THEN TRUE ELSE pd_isna(dfx.cols[d][r])

\* math.floor(x + 0.5) of a number in tenths, as a whole number
round_half_up(t) == (t + 5) \div 10

\* round(x, 1) of the rational n/d (d > 0), in tenths
round_1_decimal(n, d) == (20 * n + d) \div (2 * d)

\* round(x) of the float nearest the rational n/d (d > 0): the nearest whole
\* number; when n/d is exactly halfway, the binary quotient (solo_faculty /
\* mor_asc_sat) * 100 falls on either side, so either neighbour may result
py_round(n, d) ==
    LET fl == n \div d
        rem == n - fl * d
    IN  IF 2 * rem < d THEN {fl}
        ELSE IF 2 * rem > d THEN {fl + 1}
        ELSE {fl, fl + 1}

\* lines 239-242: the values percent_solo may take
percent_solo_values(solo_faculty, mor_asc_sat) ==
    IF mor_asc_sat > 0 THEN py_round(100 * solo_faculty, mor_asc_sat) ELSE {0}

ComputedKeys ==
    {"nfp", "no_flex", "trainee", "solo", "crna", "diff", "1:1", "1:2", "1:3.5",
     "supervisory", "addition_supervisory_faculty", "faculty_needed",
     "final_faculty", "nl", "mor", "pct_solo", "faculty_sched", "overage",
     "crna_sched", "crna_demand", "crna_needed"}

\* the dict stored for an empty day
blank_day == [k \in ComputedKeys |-> Blank]

\* lines 138-157: the day's inputs and the initial availability
day_inputs(dfx, d) ==
    LET total_rooms == T(dfx.cols[d]["total_rooms"].v)
        trainees    == T(dfx.cols[d]["trainees"].v)
        crnas       == T(dfx.cols[d]["crnas"].v)
        faculty     == T(dfx.cols[d]["faculty"].v)
    IN  [total_rooms          |-> total_rooms,
         trainees             |-> trainees,
         crnas                |-> crnas,
         faculty              |-> faculty,
         scheduled_flex_crnas |-> Max(crnas - T(rsm_fixed_crnas), 0),
         available_rooms      |-> total_rooms - T(rsm_fixed_crnas) - T(rsm_cardiac_faculty),
         available_faculty    |-> faculty - T(rsm_cardiac_faculty)]

\* lines 170-181: trainee coverage
trainee_coverage(l) ==
    LET t_rooms == Min(l.trainees, l.available_rooms)
        raw_trainee_faculty == (t_rooms \div 2) - 15
        f_trainees == Min(raw_trainee_faculty, l.available_faculty)
    IN  [trainee_rooms        |-> t_rooms,
         faculty_for_trainees |-> f_trainees,
         prev_rooms           |-> l.available_rooms,
         prev_fac             |-> l.available_faculty,
         available_rooms      |-> l.available_rooms - t_rooms,
         available_faculty    |-> l.available_faculty - f_trainees]

\* lines 193-204: CRNA coverage; raw_crna_faculty is crna_rooms / 3.5
crna_coverage(l) ==
    LET c_rooms == Min(l.scheduled_flex_crnas, l.available_rooms)
        f_crnas == IF 2 * c_rooms <= 7 * l.available_faculty
                   THEN round_1_decimal(2 * c_rooms, 70)
                   ELSE l.available_faculty
    IN  [crna_rooms        |-> c_rooms,
         faculty_for_crnas |-> f_crnas,
         prev_rooms        |-> l.available_rooms,
         prev_fac          |-> l.available_faculty,
         available_rooms   |-> l.available_rooms - c_rooms,
         available_faculty |-> l.available_faculty - f_crnas]

\* lines 222-277: solo faculty, the faculty summary and the CRNA summary
\* (percent_solo apart, see percent_solo_values)
solo_and_summary(l) ==
    LET solo_faculty == Min(l.available_faculty, l.available_rooms)
        supervisory  == T(rsm_cardiac_faculty) + l.faculty_for_trainees + l.faculty_for_crnas
        addition_faculty_supervisory == supervisory + solo_faculty
        faculty_needed == T(round_half_up(supervisory + solo_faculty))
        final_faculty_required == faculty_needed + T(2)
        mor_asc_sat  == final_faculty_required - T(rsm_nl_fac)
        crna_demand  == l.total_rooms - T(rsm_fixed_crnas) - l.trainee_rooms - solo_faculty
    IN  [solo_faculty                 |-> solo_faculty,
         supervisory                  |-> supervisory,
         addition_faculty_supervisory |-> addition_faculty_supervisory,
         faculty_needed               |-> faculty_needed,
         final_faculty_required       |-> final_faculty_required,
         overage_faculty              |-> l.faculty - final_faculty_required,
         mor_asc_sat                  |-> mor_asc_sat,
         crna_demand                  |-> crna_demand,
         crna_needed                  |-> crna_demand - l.scheduled_flex_crnas]

\* lines 293-315: the dict stored for a computed day
computed_day(l) ==
    [k \in ComputedKeys |->
       CASE k = "nfp"            -> Num(l.total_rooms)
         [] k = "no_flex"        -> Num(l.total_rooms - T(rsm_fixed_crnas))
         [] k = "trainee"        -> Num(l.trainees)
         [] k = "solo"           -> Num(l.solo_faculty)
         [] k = "crna"           -> Num(l.crna_rooms)
         [] k = "diff"           -> Num((l.total_rooms - T(rsm_fixed_crnas))
                                          - l.trainees - l.crna_rooms)
         [] k = "1:1"            -> Num(T(rsm_cardiac_faculty))
         [] k = "1:2"            -> Num(l.faculty_for_trainees)
         [] k = "1:3.5"          -> Num(l.faculty_for_crnas)
         [] k = "supervisory"    -> Num(l.supervisory)
         [] k = "addition_supervisory_faculty" -> Num(l.addition_faculty_supervisory)
         [] k = "faculty_needed" -> Num(l.faculty_needed)
         [] k = "final_faculty"  -> Num(l.final_faculty_required)
         [] k = "nl"             -> Num(T(rsm_nl_fac))
         [] k = "mor"            -> Num(l.mor_asc_sat)
         [] k = "pct_solo"       -> Pct(l.percent_solo)
         [] k = "faculty_sched"  -> Num(l.faculty)
         [] k = "overage"        -> Num(l.faculty - l.final_faculty_required)
         [] k = "crna_sched"     -> Num(l.scheduled_flex_crnas)
         [] k = "crna_demand"    -> Num(l.crna_demand)
         [] k = "crna_needed"    -> Num(l.crna_needed)]

dates == 1..Len(df.cols)

\* the day the for loop is at
d_now == Len(computed) + 1

wideRest == <<prog, params, scenarios, rows, df_out, df, ws, ioVars, cliVars, xlVars>>

\* for d in dates: an empty day is stored blank and the loop continues
day_empty ==
    /\ prog = "run_staffing_model:main"
    /\ pc = "for_dates"
    /\ d_now \in dates
    /\ is_empty_day(df, d_now)
    /\ computed' = Append(computed, blank_day)
    /\ UNCHANGED <<pc, loc>>
    /\ UNCHANGED wideRest

\* for d in dates: a day with all four inputs
day_begin ==
    /\ prog = "run_staffing_model:main"
    /\ pc = "for_dates"
    /\ d_now \in dates
    /\ ~is_empty_day(df, d_now)
    /\ loc' = day_inputs(df, d_now) @@ loc
    /\ pc' = "trainee_coverage"
    /\ UNCHANGED computed
    /\ UNCHANGED wideRest

day_trainee_coverage ==
    /\ prog = "run_staffing_model:main"
    /\ pc = "trainee_coverage"
    /\ loc' = trainee_coverage(loc) @@ loc
    /\ pc' = "crna_coverage"
    /\ UNCHANGED computed
    /\ UNCHANGED wideRest

day_crna_coverage ==
    /\ prog = "run_staffing_model:main"
    /\ pc = "crna_coverage"
    /\ loc' = crna_coverage(loc) @@ loc
    /\ pc' = "solo_faculty"
    /\ UNCHANGED computed
    /\ UNCHANGED wideRest

day_solo_and_summary ==
    /\ prog = "run_staffing_model:main"
    /\ pc = "solo_faculty"
    /\ LET s == solo_and_summary(loc) IN
       \E p \in percent_solo_values(s.solo_faculty, s.mor_asc_sat) :
          LET l == [percent_solo |-> p] @@ s @@ loc IN
          /\ loc' = l
          /\ computed' = Append(computed, computed_day(l))
    /\ pc' = "for_dates"
    /\ UNCHANGED wideRest

\* {d: computed[d][key] for d in dates}
values_of(key) == [d \in DOMAIN computed |-> computed[d][key]]

\* lines 340-361: a number is kept, anything else is written as ""
numbers_of(key) ==
    [d \in DOMAIN computed |->
        IF computed[d][key].kind = "num" THEN computed[d][key] ELSE Blank]

\* mutant: the row holds 1 for every day ({d: 1 for d in dates})
one_for_every_day == [d \in DOMAIN computed |-> Num(T(1))]

\* lines 366-374: 1 unless the day's final_faculty is ""
one_unless_blank ==
    [d \in DOMAIN computed |->
        IF computed[d]["final_faculty"] # Blank THEN Num(T(1)) ELSE Blank]

\* write_row(label, values): one row of the worksheet
write_row(label, values) == [label |-> label, values |-> values]

\* lines 320-393: the rows of the report, in the order written
report_rows ==
    << write_row("NFP demand", values_of("nfp")),
       write_row("Demand (no Flex CRNAs)", values_of("no_flex")),
       write_row("Main/NL/ASC Trainee", values_of("trainee")),
       write_row("Solo Faculty", values_of("solo")),
       write_row("Main/NL/ASC CRNA", values_of("crna")),
       write_row("difference", values_of("diff")),
       write_row("1:1", values_of("1:1")),
       write_row("1:2", values_of("1:2")),
       write_row("1:3.5", values_of("1:3.5")),
       write_row("Supervisory Faculty needed", values_of("supervisory")),
       write_row("Solo Faculty", values_of("solo")),
       write_row("", numbers_of("addition_supervisory_faculty")),
       write_row("Faculty needed", numbers_of("faculty_needed")),
       write_row("+ CD (MOR)", one_unless_blank),
       write_row("+ NL OR Block", one_unless_blank),
       write_row("", values_of("final_faculty")),
       write_row("NL fac", values_of("nl")),
       write_row("MOR/ASC/Sat", values_of("mor")),
       write_row("% solo", values_of("pct_solo")),
       write_row("Faculty Scheduled", values_of("faculty_sched")),
       write_row("Expec. Solo Faculty", values_of("solo")),
       write_row("Overage of Faculty:", values_of("overage")),
       write_row("CRNAs Scheduled:", values_of("crna_sched")),
       write_row("CRNA Demand:", values_of("crna_demand")),
       write_row("CRNAs needed:", values_of("crna_needed")) >>

\* the loop is over: the report rows are written to the worksheet
write_rows ==
    /\ prog = "run_staffing_model:main"
    /\ pc = "for_dates"
    /\ d_now \notin dates
    /\ ws' = report_rows
    /\ pc' = "save"
    /\ UNCHANGED <<prog, params, scenarios, rows, df_out, df, computed, loc,
                   ioVars, cliVars, xlVars>>

\* out_wb.save(output_excel)
save ==
    /\ prog = "run_staffing_model:main"
    /\ pc = "save"
    /\ output_file' = Append(output_file, ws)
    /\ status' = 0
    /\ pc' = "done"
    /\ UNCHANGED <<prog, params, scenarios, rows, df_out, wideVars, printed,
                   cliVars, xlVars>>

\* the values a required row of the input table may hold
CellValues(r) ==
    CASE r = "total_rooms" -> {NaN, Cell(5), Cell(20)}
      [] r = "trainees"    -> {NaN, Cell(0), Cell(4)}
      [] r = "crnas"       -> {NaN, Cell(10)}
      [] r = "faculty"     -> {NaN, Cell(12)}

RequiredRows == {required[k] : k \in 1..Len(required)}

\* the columns a table with the row labels idx may hold
Columns(idx) ==
    { [r \in idx |-> CASE r = "total_rooms" -> a
                       [] r = "trainees"    -> b
                       [] r = "crnas"       -> c
                       [] r = "faculty"     -> f] :
        a \in CellValues("total_rooms"), b \in CellValues("trainees"),
        c \in CellValues("crnas"), f \in CellValues("faculty") }

\* the row labels tried: all four rows, or one of them absent
Indexes == {RequiredRows} \cup {RequiredRows \ {r} : r \in RequiredRows}

InitWide ==
    /\ prog = "run_staffing_model:main"
    /\ pc = "for_dates"
    /\ params = <<>>
    /\ scenarios = <<>>
    /\ rows = <<>>
    /\ df_out = <<>>
    /\ args = <<>>
    /\ parsed = <<>>
    /\ df_input = <<>>
    /\ \E idx \in Indexes, n \in 0..MaxDays :
          \E c \in [1..n -> Columns(idx)] : df = [index |-> idx, cols |-> c]
    /\ computed = <<>>
    /\ ws = <<>>
    /\ loc = <<>>
    /\ printed = <<>>
    /\ output_file = <<>>
    /\ status = -1

NextWide ==
    \/ day_empty
    \/ day_begin
    \/ day_trainee_coverage
    \/ day_crna_coverage
    \/ day_solo_and_summary
    \/ write_rows
    \/ save

SpecWide == InitWide /\ [][NextWide]_vars

-----------------------------------------------------------------------------
(* staffing_model_excel.py, __main__ *)

\* the values a required column of the input table may hold in a row
xl_CellValues(r) ==
    CASE r = "total_rooms" -> {NaN, Cell(8), Cell(20)}
      [] r = "trainees"    -> {NaN, Cell(4)}
      [] r = "crnas"       -> {NaN, Cell(10)}
      [] r = "faculty"     -> {NaN, Cell(12)}

\* the rows tried; scenario_name is filled in from the row's position
xl_InputRows ==
    { [total_rooms |-> a, trainees |-> b, crnas |-> c, faculty |-> f] :
        a \in xl_CellValues("total_rooms"), b \in xl_CellValues("trainees"),
        c \in xl_CellValues("crnas"), f \in xl_CellValues("faculty") }

\* int(row[...]) raises ValueError on NaN
row_converts(row) ==
    \A k \in 1..Len(required) : ~pd_isna(row[required[k]])

\* lines 201-210: the ScenarioInput built from row i
xl_scenario_of(table, i) ==
    ScenarioInput(ScenarioName(i), table[i].total_rooms.v, table[i].trainees.v,
                  table[i].crnas.v, table[i].faculty.v)

xlMainRest == <<prog, rows, cliVars, wideVars>>

\* lines 195-197: the input file does not exist
xl_main_file_not_found ==
    /\ prog = "staffing_model_excel:main"
    /\ pc = "main"
    /\ ~df_input.exists
    /\ printed' = Append(printed, "ERROR: Input file not found")
    /\ status' = 1
    /\ pc' = "exit"
    /\ UNCHANGED <<params, scenarios, df_out, df_input, output_file>>
    /\ UNCHANGED xlMainRest

\* lines 199-212: every row converts; scenarios and Parameters() are built
xl_main_build_scenarios ==
    /\ prog = "staffing_model_excel:main"
    /\ pc = "main"
    /\ df_input.exists
    /\ \A i \in DOMAIN df_input.rows : row_converts(df_input.rows[i])
    /\ scenarios' = [i \in DOMAIN df_input.rows |-> xl_scenario_of(df_input.rows, i)]
    /\ params' = xl_Parameters
    /\ pc' = "run_scenarios"
    /\ UNCHANGED <<df_out, df_input, ioVars>>
    /\ UNCHANGED xlMainRest

\* lines 201-210: int(NaN) raises ValueError, nothing catches it: the
\* interpreter prints the traceback and exits with status 1
xl_main_value_error ==
    /\ prog = "staffing_model_excel:main"
    /\ pc = "main"
    /\ df_input.exists
    /\ \E i \in DOMAIN df_input.rows : ~row_converts(df_input.rows[i])
    /\ printed' = Append(printed, "ValueError: cannot convert float NaN to integer")
    /\ status' = 1
    /\ pc' = "exit"
    /\ UNCHANGED <<params, scenarios, df_out, df_input, output_file>>
    /\ UNCHANGED xlMainRest

\* lines 215-218: df_output.to_excel(output_file)
xl_main_to_excel ==
    /\ prog = "staffing_model_excel:main"
    /\ pc = "to_excel"
    /\ output_file' = Append(output_file, df_out)
    /\ status' = 0
    /\ pc' = "exit"
    /\ UNCHANGED <<params, scenarios, df_out, df_input, printed>>
    /\ UNCHANGED xlMainRest

InitExcel ==
    /\ prog = "staffing_model_excel:main"
    /\ pc = "main"
    /\ params = <<>>
    /\ scenarios = <<>>
    /\ rows = <<>>
    /\ df_out = <<>>
    /\ args = <<>>
    /\ parsed = <<>>
    /\ \/ df_input = [exists |-> FALSE, rows |-> <<>>]
       \/ \E n \in 0..MaxScenarios : \E t \in [1..n -> xl_InputRows] :
             df_input = [exists |-> TRUE, rows |-> t]
    /\ df = <<>>
    /\ computed = <<>>
    /\ ws = <<>>
    /\ loc = <<>>
    /\ printed = <<>>
    /\ output_file = <<>>
    /\ status = -1

NextExcel ==
    \/ xl_main_file_not_found
    \/ xl_main_build_scenarios
    \/ xl_main_value_error
    \/ xl_run_scenarios
    \/ xl_main_to_excel

SpecExcel == InitExcel /\ [][NextExcel]_vars

-----------------------------------------------------------------------------
(* staffing_model.py, __main__ *)

MaxItems == 2

\* an argument is a comma-separated string; it is held as value.split(","),
\* each item a sequence of characters
Items == { <<"3">>, <<" ", "1">>, <<"x">>, <<>> }

ArgValues == UNION { [1..n -> Items] : n \in 1..MaxItems }

ArgNames == <<"total_rooms", "trainees", "crnas", "faculty">>

DigitChars == <<"0", "1", "2", "3", "4", "5", "6", "7", "8", "9">>
IsDigit(ch) == \E i \in 1..10 : DigitChars[i] = ch
DigitValue(ch) == (CHOOSE i \in 1..10 : DigitChars[i] = ch) - 1

RECURSIVE lstrip(_)
lstrip(x) == IF x # <<>> /\ Head(x) = " " THEN lstrip(Tail(x)) ELSE x

RECURSIVE rstrip(_)
rstrip(x) ==
    IF x # <<>> /\ x[Len(x)] = " " THEN rstrip(SubSeq(x, 1, Len(x) - 1)) ELSE x

\* str.strip()
strip(x) == rstrip(lstrip(x))

\* the digits of a literal, its sign taken off
unsigned(x) == IF x # <<>> /\ Head(x) \in {"+", "-"} THEN Tail(x) ELSE x

RECURSIVE digits_value(_)
digits_value(x) ==
    IF x = <<>> THEN 0 ELSE 10 * digits_value(SubSeq(x, 1, Len(x) - 1)) + DigitValue(x[Len(x)])

\* mutant: the empty string is read as 0
int_accepts_or_empty(x) ==
    \A i \in DOMAIN unsigned(x) : IsDigit(unsigned(x)[i])

\* int(x) does not raise ValueError: an optional sign and at least one digit
int_accepts(x) ==
    /\ unsigned(x) # <<>>
    /\ \A i \in DOMAIN unsigned(x) : IsDigit(unsigned(x)[i])

\* int(x) where it is accepted
int_value(x) ==
    IF x # <<>> /\ Head(x) = "-" THEN -digits_value(unsigned(x)) ELSE digits_value(unsigned(x))

\* parse_csv_ints does not raise on this argument
parse_csv_ints_accepts(value) ==
    \A i \in DOMAIN value : int_accepts(strip(value[i]))

\* parse_csv_ints: [int(x.strip()) for x in value.split(",")]
parse_csv_ints(value) ==
    [i \in DOMAIN value |-> int_value(strip(value[i]))]

\* build_scenarios, lines 175-180: the chained comparison of the four lengths
same_length(total_rooms, trainees, crnas, faculty) ==
    /\ Len(total_rooms) = Len(trainees)
    /\ Len(trainees) = Len(crnas)
    /\ Len(crnas) = Len(faculty)

\* build_scenarios, lines 183-194
build_scenarios(total_rooms, trainees, crnas, faculty) ==
    [i \in 1..Len(total_rooms) |->
        ScenarioInput(ScenarioName(i), total_rooms[i], trainees[i], crnas[i], faculty[i])]

cliRest == <<prog, rows, df_out, xlVars, wideVars, output_file>>

\* lines 215-218: the next argument parses
main_parse_csv_ints ==
    /\ prog = "staffing_model:main"
    /\ pc = "parse"
    /\ Len(parsed) < Len(ArgNames)
    /\ \E value \in ArgValues :
          /\ parse_csv_ints_accepts(value)
          /\ args' = Append(args, value)
          /\ parsed' = Append(parsed, parse_csv_ints(value))
    /\ UNCHANGED <<pc, params, scenarios, printed, status>>
    /\ UNCHANGED cliRest

\* lines 168-171, 224-226: the next argument holds an item int() rejects
main_parse_csv_ints_error ==
    /\ prog = "staffing_model:main"
    /\ pc = "parse"
    /\ Len(parsed) < Len(ArgNames)
    /\ \E value \in ArgValues :
          /\ ~parse_csv_ints_accepts(value)
          /\ args' = Append(args, value)
    /\ printed' = Append(printed, <<"ERROR: Invalid integer in", ArgNames[Len(parsed) + 1]>>)
    /\ status' = 1
    /\ pc' = "exit"
    /\ UNCHANGED <<params, scenarios, parsed>>
    /\ UNCHANGED cliRest

\* lines 220-222, 228: build_scenarios returns; Parameters() is created
main_build_scenarios ==
    /\ prog = "staffing_model:main"
    /\ pc = "parse"
    /\ Len(parsed) = Len(ArgNames)
    /\ same_length(parsed[1], parsed[2], parsed[3], parsed[4])
    /\ scenarios' = build_scenarios(parsed[1], parsed[2], parsed[3], parsed[4])
    /\ params' = Parameters
    /\ pc' = "run_scenarios"
    /\ UNCHANGED <<args, parsed, printed, status>>
    /\ UNCHANGED cliRest

\* lines 175-181, 224-226: build_scenarios raises
main_build_scenarios_error ==
    /\ prog = "staffing_model:main"
    /\ pc = "parse"
    /\ Len(parsed) = Len(ArgNames)
    /\ ~same_length(parsed[1], parsed[2], parsed[3], parsed[4])
    /\ printed' = Append(printed, <<"ERROR: All input lists must be the same length", "">>)
    /\ status' = 1
    /\ pc' = "exit"
    /\ UNCHANGED <<args, parsed, params, scenarios>>
    /\ UNCHANGED cliRest

\* lines 231-236: df.to_excel(output_file)
main_to_excel ==
    /\ prog = "staffing_model:main"
    /\ pc = "to_excel"
    /\ output_file' = Append(output_file, df_out)
    /\ status' = 0
    /\ pc' = "exit"
    /\ UNCHANGED <<params, scenarios, rows, df_out, printed>>
    /\ UNCHANGED <<prog, cliVars, xlVars, wideVars>>

\* an argument's value is drawn when parse_csv_ints reads it
InitCli ==
    /\ prog = "staffing_model:main"
    /\ pc = "parse"
    /\ params = <<>>
    /\ scenarios = <<>>
    /\ Idle

NextCli ==
    \/ main_parse_csv_ints
    \/ main_parse_csv_ints_error
    \/ main_build_scenarios
    \/ main_build_scenarios_error
    \/ run_scenarios_step
    \/ run_scenarios_return
    \/ main_to_excel

SpecCli == InitCli /\ [][NextCli]_vars

-----------------------------------------------------------------------------
(* Properties of compute_staffing, read off the rows run_scenarios produced *)

InStaffingModel == prog \in {"staffing_model", "staffing_model:main"}
InStaffingModelExcel == prog \in {"staffing_model_excel", "staffing_model_excel:main"}

\* staffing_model_excel's result has no CRNA-room field: max_rooms_coverable is
\* trainee_rooms + crna_rooms + solo_faculty_rooms, which gives it back
xl_rooms_covered_by_crnas(r) ==
    r.max_rooms_coverable - r.trainees_used - r.solo_faculty_rooms

WithFaculty(sc, f) == [sc EXCEPT !.faculty_available = f]

\* C1: in every result of either compute_staffing the rooms covered by the
\* three tiers sum to at most total_rooms, and rooms_left_to_cover is exactly
\* total_rooms - max_rooms_coverable, hence >= 0.
C1_CoverageWithinCapacity ==
    /\ InStaffingModel =>
         \A i \in DOMAIN rows :
            LET r == rows[i] IN
            /\ r.rooms_covered_by_trainees + r.rooms_covered_by_crnas
                 + r.rooms_covered_by_faculty <= r.total_rooms
            /\ r.rooms_left_to_cover = r.total_rooms - r.max_rooms_coverable
            /\ r.rooms_left_to_cover >= 0
    /\ InStaffingModelExcel =>
         \A i \in DOMAIN df_out :
            LET r == df_out[i] IN
            /\ r.trainees_used + xl_rooms_covered_by_crnas(r)
                 + r.solo_faculty_rooms <= r.total_rooms
            /\ r.rooms_left_to_cover = r.total_rooms - r.max_rooms_coverable
            /\ r.rooms_left_to_cover >= 0

\* a result where all three tiers cover rooms and rooms are still left over
C1_Witness ==
    /\ InStaffingModel
    /\ \E i \in DOMAIN rows :
          /\ rows[i].rooms_covered_by_trainees > 0
          /\ rows[i].rooms_covered_by_crnas > 0
          /\ rows[i].rooms_covered_by_faculty > 0
          /\ rows[i].rooms_left_to_cover > 0

\* C2: raising faculty_available of a scenario, all else equal, never lowers
\* the solo-faculty rooms nor max_rooms_coverable of its result.
C2_MonotoneInFaculty ==
    /\ InStaffingModel =>
         \A i \in DOMAIN rows :
            \A f2 \in scenarios[i].faculty_available .. MaxFaculty + 1 :
               LET r2 == compute_staffing(WithFaculty(scenarios[i], f2), params) IN
               /\ r2.rooms_covered_by_faculty >= rows[i].rooms_covered_by_faculty
               /\ r2.max_rooms_coverable >= rows[i].max_rooms_coverable
    /\ InStaffingModelExcel =>
         \A i \in DOMAIN df_out :
            \A f2 \in scenarios[i].faculty_available .. MaxFaculty + 1 :
               LET r2 == xl_compute_staffing(WithFaculty(scenarios[i], f2), params) IN
               /\ r2.solo_faculty_rooms >= df_out[i].solo_faculty_rooms
               /\ r2.max_rooms_coverable >= df_out[i].max_rooms_coverable

\* a result that one more faculty member strictly improves
C2_Witness ==
    /\ InStaffingModel
    /\ \E i \in DOMAIN rows :
          LET f == scenarios[i].faculty_available
              r2 == compute_staffing(WithFaculty(scenarios[i], f + 1), params) IN
          /\ f > 0
          /\ rows[i].rooms_covered_by_faculty > 0
          /\ r2.rooms_covered_by_faculty > rows[i].rooms_covered_by_faculty
          /\ r2.max_rooms_coverable > rows[i].max_rooms_coverable

\* the parameter set and the scenario of the worked example
IsExampleParams(p) ==
    /\ p.trainee_supervision_ratio = Ratio(2, 1)
    /\ p.crna_supervision_ratio = Ratio(7, 2)
    /\ p.fixed_crnas = 6
    /\ xl_fixed_faculty_total(p) = 4

IsExampleScenario(sc) ==
    /\ sc.total_rooms = 20
    /\ sc.trainees_available = 4
    /\ sc.crnas_available = 10
    /\ sc.faculty_available = 12

\* C3: staffing_model_excel.compute_staffing on the worked example (ratios 2
\* and 3.5, 6 fixed CRNAs, 4 fixed faculty; 20 rooms, 4 trainees, 10 CRNAs, 12
\* faculty) returns trainee rooms 4, CRNA rooms 4, supervision 2 and 2, 8
\* faculty for coverage, 4 solo rooms, buffer 0, 12 coverable, 8 left.
C3_WorkedExample ==
    (InStaffingModelExcel /\ IsExampleParams(params)) =>
       \A i \in DOMAIN df_out :
          IsExampleScenario(scenarios[i]) =>
             LET r == df_out[i] IN
             /\ r.trainees_used = 4
             /\ r.crnas_available_for_rooms = 4
             /\ xl_rooms_covered_by_crnas(r) = 4
             /\ r.faculty_used_for_trainee_supervision = 2
             /\ r.faculty_used_for_crna_supervision = 2
             /\ r.faculty_available_for_coverage = 8
             /\ r.solo_faculty_rooms = 4
             /\ r.faculty_buffer = 0
             /\ r.max_rooms_coverable = 12
             /\ r.rooms_left_to_cover = 8

\* the worked example has been computed
C3_Witness ==
    /\ InStaffingModelExcel
    /\ IsExampleParams(params)
    /\ \E i \in DOMAIN df_out : IsExampleScenario(scenarios[i])

\* C4: a scenario with total_rooms = 0 covers no room in any tier, has
\* max_rooms_coverable = rooms_left_to_cover = 0 and uses no supervising faculty.
C4_ZeroRooms ==
    /\ InStaffingModel =>
         \A i \in DOMAIN rows :
            LET r == rows[i] IN
            scenarios[i].total_rooms = 0 =>
               /\ r.rooms_covered_by_trainees = 0
               /\ r.rooms_covered_by_crnas = 0
               /\ r.rooms_covered_by_faculty = 0
               /\ r.max_rooms_coverable = 0
               /\ r.rooms_left_to_cover = 0
               /\ r.faculty_used_for_trainee_supervision = 0
               /\ r.faculty_used_for_crna_supervision = 0
    /\ InStaffingModelExcel =>
         \A i \in DOMAIN df_out :
            LET r == df_out[i] IN
            scenarios[i].total_rooms = 0 =>
               /\ r.trainees_used = 0
               /\ xl_rooms_covered_by_crnas(r) = 0
               /\ r.solo_faculty_rooms = 0
               /\ r.max_rooms_coverable = 0
               /\ r.rooms_left_to_cover = 0
               /\ r.faculty_used_for_trainee_supervision = 0
               /\ r.faculty_used_for_crna_supervision = 0

\* a result for no rooms while trainees, flexible CRNAs and faculty are there
C4_Witness ==
    /\ InStaffingModel
    /\ \E i \in DOMAIN rows :
          /\ scenarios[i].total_rooms = 0
          /\ scenarios[i].trainees_available > 0
          /\ rows[i].crnas_available_for_rooms > 0
          /\ rows[i].faculty_available_for_coverage > 0

-----------------------------------------------------------------------------
(* Properties of the wide-form runner *)

InWide == prog = "run_staffing_model:main"

\* the days of the table that have been computed and are not empty
ComputedDays == {d \in DOMAIN computed : ~is_empty_day(df, d)}
EmptyDays == {d \in DOMAIN computed : is_empty_day(df, d)}

\* C5: a scenario or day with zero trainees consumes no faculty for trainee
\* supervision: faculty_used_for_trainee_supervision of both compute_staffing
\* and the "1:2" value of run_staffing_model are 0.
C5_NoFacultyForZeroTrainees ==
    /\ InStaffingModel =>
         \A i \in DOMAIN rows :
            scenarios[i].trainees_available = 0 =>
               rows[i].faculty_used_for_trainee_supervision = 0
    /\ InStaffingModelExcel =>
         \A i \in DOMAIN df_out :
            scenarios[i].trainees_available = 0 =>
               df_out[i].faculty_used_for_trainee_supervision = 0
    /\ InWide =>
         \A d \in ComputedDays :
            df.cols[d]["trainees"].v = 0 => computed[d]["1:2"] = Num(0)

\* the locals of the day loop that are counts, not signed differences
CountLocals ==
    {"available_rooms", "available_faculty", "trainee_rooms", "faculty_for_trainees",
     "crna_rooms", "faculty_for_crnas", "solo_faculty", "crna_demand"}

\* the numeric fields of a compute_staffing result
NumericFields(r) == DOMAIN r \ {"name"}

\* C6: no count is ever negative at the point it is computed: every numeric
\* field of a compute_staffing result, and in run_staffing_model the available
\* rooms and faculty, trainee and CRNA rooms, faculty for trainees and for
\* CRNAs, solo faculty and CRNA demand.
C6_NoNegativeCounts ==
    /\ InStaffingModel =>
         \A i \in DOMAIN rows : \A k \in NumericFields(rows[i]) : rows[i][k] >= 0
    /\ InStaffingModelExcel =>
         \A i \in DOMAIN df_out : \A k \in NumericFields(df_out[i]) : df_out[i][k] >= 0
    /\ InWide =>
         /\ \A k \in CountLocals \cap DOMAIN loc : loc[k] >= 0
         /\ \A d \in ComputedDays :
               \A k \in {"solo", "crna", "1:2", "1:3.5", "crna_demand"} :
                  computed[d][k].v >= 0

\* the locals of day d computed on its own, from a fresh frame
day_alone(dfx, d) ==
    LET l1 == day_inputs(dfx, d)
        l2 == trainee_coverage(l1) @@ l1
        l3 == crna_coverage(l2) @@ l2
    IN  solo_and_summary(l3) @@ l3

\* C7: a day for which a required row is absent or NaN is blank in every value
\* stored and in every row written (the "+ CD (MOR)" and "+ NL OR Block" rows
\* too), and every other day holds the values it has when computed on its own.
C7_EmptyDayBlank ==
    InWide =>
       /\ \A d \in EmptyDays :
             /\ \A k \in ComputedKeys : computed[d][k] = Blank
             /\ \A r \in DOMAIN ws : ws[r].values[d] = Blank
             /\ \A n \in DOMAIN output_file :
                   \A r \in DOMAIN output_file[n] : output_file[n][r].values[d] = Blank
       /\ \A d \in ComputedDays :
             LET l == day_alone(df, d) IN
             \E p \in percent_solo_values(l.solo_faculty, l.mor_asc_sat) :
                computed[d] = computed_day([percent_solo |-> p] @@ l)
       /\ \A r \in DOMAIN ws : DOMAIN ws[r].values = DOMAIN df.cols

\* a saved report with an empty day (all rows present, one NaN) before a
\* computed day
C7_Witness ==
    /\ InWide
    /\ pc = "done"
    /\ output_file # <<>>
    /\ df.index = RequiredRows
    /\ \E d1 \in EmptyDays : \E d2 \in ComputedDays : d1 < d2

-----------------------------------------------------------------------------
(* Properties of the entry points and of run_scenarios *)

InExcelMain == prog = "staffing_model_excel:main"
InCliMain == prog = "staffing_model:main"

\* the rows of the input table that lack a required value
IncompleteRows ==
    {i \in DOMAIN df_input.rows : \E k \in 1..Len(required) : df_input.rows[i][required[k]].nan}

\* C8: a row of the long-form input table that lacks a required value is not
\* an error: the run ends with status 0 and writes one result per row of the
\* table, those of the complete rows computed as usual.
C8_EmptyScenarioTolerated ==
    (InExcelMain /\ pc = "exit" /\ df_input.exists /\ IncompleteRows # {}) =>
       /\ status = 0
       /\ Len(output_file) = 1
       /\ Len(output_file[1]) = Len(df_input.rows)
       /\ \A i \in DOMAIN df_input.rows \ IncompleteRows :
             output_file[1][i] =
                asdict(xl_compute_staffing(xl_scenario_of(df_input.rows, i), xl_Parameters))

\* the items of Items that Python's int() accepts once stripped: "3" and " 1"
IntegerItems == { <<"3">>, <<" ", "1">> }

\* an argument read so far holds an item that is no integer
SomeItemNotInteger ==
    \E k \in DOMAIN args : \E i \in DOMAIN args[k] : args[k][i] \notin IntegerItems

\* all four arguments are read and their lists differ in length
LengthsDiffer ==
    /\ Len(args) = 4
    /\ \E j, k \in DOMAIN args : Len(args[j]) # Len(args[k])

\* C9: when an argument holds an item that is not an integer, or the four
\* lists differ in length, no scenario is built, compute_staffing runs on
\* none and no file is written; the run ends with an ERROR message and exit
\* status 1.  build_scenarios returns only for four lists of one length.
C9_FailFast ==
    InCliMain =>
       /\ (SomeItemNotInteger \/ LengthsDiffer) =>
             /\ scenarios = <<>>
             /\ rows = <<>>
             /\ df_out = <<>>
             /\ output_file = <<>>
             /\ pc \in {"parse", "exit"}
             /\ pc = "exit" => (status = 1 /\ Len(printed) = 1)
       /\ SomeItemNotInteger =>
             /\ pc = "exit"
             /\ printed = << <<"ERROR: Invalid integer in", ArgNames[Len(args)]>> >>
       /\ (LengthsDiffer /\ ~SomeItemNotInteger /\ pc = "exit") =>
             printed = << <<"ERROR: All input lists must be the same length", "">> >>
       /\ pc \in {"run_scenarios", "to_excel"} =>
             /\ Len(args) = 4
             /\ \A k \in DOMAIN args : Len(args[k]) = Len(scenarios)

\* four arguments of integers whose lists differ in length: the run has ended
\* with status 1
C9_Witness ==
    /\ InCliMain
    /\ pc = "exit"
    /\ status = 1
    /\ LengthsDiffer
    /\ ~SomeItemNotInteger

\* C10: run_scenarios returns one row per scenario, in the order of the
\* scenarios, and row i is compute_staffing of scenario i and the parameters
\* alone, whatever the other scenarios of the list are.
C10_OneRowPerScenario ==
    /\ InStaffingModel =>
         /\ Len(rows) <= Len(scenarios)
         /\ \A i \in DOMAIN rows :
               /\ rows[i].name = scenarios[i].name
               /\ rows[i] = asdict(compute_staffing(scenarios[i], params))
         /\ pc = "returned" => df_out = rows /\ Len(df_out) = Len(scenarios)
    /\ InStaffingModelExcel =>
         /\ \A i \in DOMAIN df_out :
               /\ df_out[i].name = scenarios[i].name
               /\ df_out[i] = asdict(xl_compute_staffing(scenarios[i], params))
         /\ pc = "returned" => Len(df_out) = Len(scenarios)

\* run_scenarios has returned the rows of three scenarios, not all alike
C10_Witness ==
    /\ InStaffingModel
    /\ pc = "returned"
    /\ Len(df_out) = 3
    /\ scenarios[1].total_rooms # scenarios[2].total_rooms
    /\ scenarios[2].total_rooms # scenarios[3].total_rooms

-----------------------------------------------------------------------------
(* Supervision counts, shortage fields and tier order of compute_staffing *)

\* f is the least integer with f * ratio >= n (0 when n = 0)
IsLeastSupervision(f, n, ratio) ==
    /\ f \in Nat
    /\ f * ratio.num >= n * ratio.den
    /\ f > 0 => (f - 1) * ratio.num < n * ratio.den

\* what the claim's example says of the ratio 3.5
ExampleAt3_5(f, n, ratio) ==
    ratio = Ratio(7, 2) =>
       /\ n = 7 => f = 2
       /\ n = 8 => f = 3

\* C11: in every result of either compute_staffing, the faculty supervising
\* a tier is 0 when the tier covers no room and otherwise the least integer f
\* with f * ratio >= rooms of the tier (never rounded down); at the ratio 3.5,
\* 7 CRNA rooms take 2 faculty and 8 take 3.
C11_CeilingSupervision ==
    /\ InStaffingModel =>
         \A i \in DOMAIN rows :
            LET r == rows[i] IN
            /\ IsLeastSupervision(r.faculty_used_for_trainee_supervision,
                                  r.rooms_covered_by_trainees,
                                  params.trainee_supervision_ratio)
            /\ IsLeastSupervision(r.faculty_used_for_crna_supervision,
                                  r.rooms_covered_by_crnas,
                                  params.crna_supervision_ratio)
            /\ r.rooms_covered_by_trainees = 0 =>
                  r.faculty_used_for_trainee_supervision = 0
            /\ r.rooms_covered_by_crnas = 0 =>
                  r.faculty_used_for_crna_supervision = 0
            /\ ExampleAt3_5(r.faculty_used_for_crna_supervision,
                            r.rooms_covered_by_crnas,
                            params.crna_supervision_ratio)
    /\ InStaffingModelExcel =>
         \A i \in DOMAIN df_out :
            LET r == df_out[i] IN
            /\ IsLeastSupervision(r.faculty_used_for_trainee_supervision,
                                  r.trainees_used,
                                  params.trainee_supervision_ratio)
            /\ IsLeastSupervision(r.faculty_used_for_crna_supervision,
                                  xl_rooms_covered_by_crnas(r),
                                  params.crna_supervision_ratio)
            /\ r.trainees_used = 0 =>
                  r.faculty_used_for_trainee_supervision = 0
            /\ xl_rooms_covered_by_crnas(r) = 0 =>
                  r.faculty_used_for_crna_supervision = 0
            /\ ExampleAt3_5(r.faculty_used_for_crna_supervision,
                            xl_rooms_covered_by_crnas(r),
                            params.crna_supervision_ratio)

\* a staffing_model_excel result at the ratios 2 and 3.5 where both quotients
\* are fractional: 3 trainee rooms take 2 faculty, 8 CRNA rooms take 3
C11_Witness ==
    /\ InStaffingModelExcel
    /\ params.trainee_supervision_ratio = Ratio(2, 1)
    /\ params.crna_supervision_ratio = Ratio(7, 2)
    /\ \E i \in DOMAIN df_out :
          /\ df_out[i].trainees_used = 3
          /\ df_out[i].faculty_used_for_trainee_supervision = 2
          /\ xl_rooms_covered_by_crnas(df_out[i]) = 8
          /\ df_out[i].faculty_used_for_crna_supervision = 3

\* C12: every result of staffing_model_excel.compute_staffing has
\* crna_demand = max(total_rooms - trainee rooms - solo-faculty rooms -
\* fixed_crnas, 0) and crnas_shortage = max(crna_demand - crnas_available, 0),
\* the solo-faculty rooms being those tier 3 of the same result took; both
\* are >= 0.
C12_ShortageVariant ==
    InStaffingModelExcel =>
       \A i \in DOMAIN df_out :
          LET r  == df_out[i]
              sc == scenarios[i]
              raw_demand == sc.total_rooms - r.trainees_used
                              - r.solo_faculty_rooms - params.fixed_crnas
              raw_shortage == r.crna_demand - sc.crnas_available
              tier3_faculty == r.faculty_available_for_coverage
                                 - (r.faculty_used_for_trainee_supervision
                                    + r.faculty_used_for_crna_supervision)
              tier3_rooms == sc.total_rooms - r.trainees_used
                               - xl_rooms_covered_by_crnas(r)
          IN  /\ r.crna_demand = IF raw_demand > 0 THEN raw_demand ELSE 0
              /\ r.crnas_shortage = IF raw_shortage > 0 THEN raw_shortage ELSE 0
              /\ r.solo_faculty_rooms =
                    IF tier3_faculty <= 0 THEN 0
                    ELSE IF tier3_faculty <= tier3_rooms THEN tier3_faculty
                    ELSE tier3_rooms
              /\ r.crna_demand >= 0
              /\ r.crnas_shortage >= 0

\* a result where solo faculty took rooms, demand for CRNAs remains and the
\* CRNAs available fall short of it
C12_Witness ==
    /\ InStaffingModelExcel
    /\ \E i \in DOMAIN df_out :
          /\ df_out[i].solo_faculty_rooms > 0
          /\ scenarios[i].crnas_available > 0
          /\ df_out[i].crna_demand > df_out[i].crnas_shortage
          /\ df_out[i].crnas_shortage > 0

\* C13: in every result of either compute_staffing a lower tier covers rooms
\* only once every higher tier is exhausted: CRNA rooms > 0 implies trainee
\* rooms = trainees_available, and solo-faculty rooms > 0 implies trainee
\* rooms = trainees_available and CRNA rooms = crnas_available_for_rooms.
C13_TierPriority ==
    /\ InStaffingModel =>
         \A i \in DOMAIN rows :
            LET r == rows[i] IN
            /\ r.rooms_covered_by_crnas > 0 =>
                  r.rooms_covered_by_trainees = scenarios[i].trainees_available
            /\ r.rooms_covered_by_faculty > 0 =>
                  /\ r.rooms_covered_by_trainees = scenarios[i].trainees_available
                  /\ r.rooms_covered_by_crnas = r.crnas_available_for_rooms
    /\ InStaffingModelExcel =>
         \A i \in DOMAIN df_out :
            LET r == df_out[i] IN
            /\ xl_rooms_covered_by_crnas(r) > 0 =>
                  r.trainees_used = scenarios[i].trainees_available
            /\ r.solo_faculty_rooms > 0 =>
                  /\ r.trainees_used = scenarios[i].trainees_available
                  /\ xl_rooms_covered_by_crnas(r) = r.crnas_available_for_rooms

\* a staffing_model_excel result where solo faculty finish the rooms after
\* every trainee and every flexible CRNA has taken one
C13_Witness ==
    /\ InStaffingModelExcel
    /\ \E i \in DOMAIN df_out :
          /\ scenarios[i].trainees_available > 0
          /\ df_out[i].crnas_available_for_rooms > 0
          /\ df_out[i].solo_faculty_rooms > 0
          /\ df_out[i].rooms_left_to_cover = 0
          /\ df_out[i].trainees_used = scenarios[i].trainees_available
          /\ xl_rooms_covered_by_crnas(df_out[i]) = df_out[i].crnas_available_for_rooms

\* C14: in every result of either compute_staffing, rooms_left_to_cover > 0
\* implies faculty_buffer = 0, trainee rooms = trainees_available and CRNA
\* rooms = crnas_available_for_rooms; and faculty_buffer > 0 implies
\* rooms_left_to_cover = 0.
C14_NoIdleCapacity ==
    /\ InStaffingModel =>
         \A i \in DOMAIN rows :
            LET r == rows[i] IN
            /\ r.rooms_left_to_cover > 0 =>
                  /\ r.faculty_buffer = 0
                  /\ r.rooms_covered_by_trainees = scenarios[i].trainees_available
                  /\ r.rooms_covered_by_crnas = r.crnas_available_for_rooms
            /\ r.faculty_buffer > 0 => r.rooms_left_to_cover = 0
    /\ InStaffingModelExcel =>
         \A i \in DOMAIN df_out :
            LET r == df_out[i] IN
            /\ r.rooms_left_to_cover > 0 =>
                  /\ r.faculty_buffer = 0
                  /\ r.trainees_used = scenarios[i].trainees_available
                  /\ xl_rooms_covered_by_crnas(r) = r.crnas_available_for_rooms
            /\ r.faculty_buffer > 0 => r.rooms_left_to_cover = 0

\* staffing_model_excel results of one run: one leaves rooms uncovered
\* although solo faculty took rooms, another keeps faculty in the buffer
C14_Witness ==
    /\ InStaffingModelExcel
    /\ \E i, j \in DOMAIN df_out :
          /\ df_out[i].rooms_left_to_cover > 0
          /\ df_out[i].solo_faculty_rooms > 0
          /\ df_out[i].faculty_buffer = 0
          /\ df_out[j].faculty_buffer > 0
          /\ df_out[j].rooms_left_to_cover = 0

====
